---------------------------- MODULE Spec2Model ----------------------------
(***************************************************************************)
(* The /convert forwarding proxy of htmltocssimage-API, in its two         *)
(* variants: app.py (credential headers are omitted when absent) and       *)
(* edited-app.py (the request is refused when a credential is absent).     *)
(*                                                                         *)
(* One request is followed from its arrival to its response.  The handler  *)
(* is cut at its two blocking outbound calls: the status GET and the       *)
(* render POST.  The answers of the two upstream services are the          *)
(* environment's choice.                                                   *)
(*                                                                         *)
(* Python values: a string is itself, None is the string None below, and   *)
(* a dict is a function from its keys.  The random browser fingerprint of  *)
(* app.py (User-Agent, Accept-Language, Sec-CH-UA*, X-Forwarded-For) is    *)
(* independent of everything modelled here and is left out of the headers. *)
(***************************************************************************)
EXTENDS Naturals, Sequences, FiniteSets, TLC

VARIABLES
    variant,        \* "app" (app.py) or "edited" (edited-app.py): the deployed script
    pc,             \* "idle" | "status" | "render" | "done" ; "extract" | "extracted"
    request,        \* the caller's request
    status_json,    \* the status body handed to the token extraction (SpecToken)
    status_result,  \* how the status GET ended: "none" | "transport" | "http_error" | "bad_json" | "bad_cookie" | "ok"
    cookie_str,     \* the assembled cookie string
    token,          \* the extracted token
    posts,          \* the render POSTs issued, in order: [headers, payload]
    render_resp,    \* the render service's answer
    response,       \* the response of /convert
    calls           \* the log of outbound traffic, in order

vars == <<variant, pc, request, status_json, status_result, cookie_str, token,
          posts, render_resp, response, calls>>

----------------------------------------------------------------------------
(* Bounds *)

\* the most cookies in a status body
MaxCookies == 2
\* the most token-like keys in a status body
MaxTokenKeys == 2

----------------------------------------------------------------------------
(* Python values *)

None == "<None>"

\* bool(v) for a string or None
Truthy(v) == v # None /\ v # ""

\* a or b
Or(a, b) == IF Truthy(a) THEN a ELSE b

\* d.get(k)
Get(d, k) == IF k \in DOMAIN d THEN d[k] ELSE None

\* d.get(k, default)
GetDefault(d, k, default) == IF k \in DOMAIN d THEN d[k] ELSE default

EmptyDict == <<>>

\* sep.join(parts)
RECURSIVE Join(_, _)
Join(parts, sep) ==
    IF parts = <<>> THEN ""
    ELSE IF Len(parts) = 1 THEN parts[1]
    ELSE parts[1] \o sep \o Join(Tail(parts), sep)

\* str.lower() on the header names and schemes that occur
Lower(s) ==
    CASE s = "Bearer" -> "bearer"
      [] s = "Basic" -> "basic"
      [] s = "Connection" -> "connection"
      [] s = "Keep-Alive" -> "keep-alive"
      [] s = "Transfer-Encoding" -> "transfer-encoding"
      [] s = "Content-Encoding" -> "content-encoding"
      [] s = "Content-Type" -> "content-type"
      [] s = "X-Request-Id" -> "x-request-id"
      [] OTHER -> s

----------------------------------------------------------------------------
(* Configuration *)

API_KEY == "OTTONRENT"
INTERNAL_API_KEY == "OTTONRENT"

DEFAULT_PAYLOAD ==
    [html |-> None, selector |-> "#qr-container", full_screen |-> "False",
     render_when_ready |-> "False", color_scheme |-> "light", timezone |-> "UTC",
     block_consent_banners |-> "False"]

\* the keys convert_endpoint copies from the body
AppExtraKeys ==
    {"selector", "full_screen", "render_when_ready", "color_scheme", "timezone",
     "block_consent_banners"}

\* the keys render_html reads from the body beside html
EditedExtraKeys ==
    {"css", "url", "selector", "console_mode", "ms_delay", "render_when_ready",
     "viewport_width", "viewport_height", "google_fonts", "device_scale"}


----------------------------------------------------------------------------
(* The API-key check *)

\* Authorization header values are scheme, then (sp) one space, then cred;
\* an absent header reads as "" (get("Authorization", ""))
NoAuth == [scheme |-> "", sp |-> FALSE, cred |-> ""]

\* auth.lower().startswith("bearer ")
IsBearer(auth) == Lower(auth.scheme) = "bearer" /\ auth.sp

\* auth.split(None, 1): whitespace-separated, at most two parts, no empty part
SplitAuth(auth) ==
    IF auth.scheme = "" THEN <<>>
    ELSE IF auth.cred = "" THEN <<auth.scheme>>
    ELSE <<auth.scheme, auth.cred>>

\* _require_api_key of app.py: "ok", "401" (abort) or "IndexError" (split(...)[1]
\* of a one-part list, raised out of the handler)
require_api_key(req) ==
    IF IsBearer(req.authorization) /\ Len(SplitAuth(req.authorization)) < 2
    THEN "IndexError"
    ELSE LET header_key == IF IsBearer(req.authorization)
                           THEN SplitAuth(req.authorization)[2]
                           ELSE Or(req.x_api_key, "")
         IN  IF ~Truthy(header_key) \/ header_key # API_KEY THEN "401" ELSE "ok"

\* step 1 of render_html: only X-API-KEY is read
EditedKeyCheck(req) ==
    LET client_key == IF req.x_api_key = None THEN "" ELSE req.x_api_key
    IN  IF client_key # INTERNAL_API_KEY THEN "401" ELSE "ok"

----------------------------------------------------------------------------
(* The body check and the payload *)

\* a slip: only an absent html is refused, an empty one passes
HtmlMissing_AbsentOnly(html) == html = None

\* if not html
HtmlMissing(html) == ~Truthy(html)

\* a slip: every body key but html is merged into the payload
AppExtras_EveryKey(body) == [k \in DOMAIN body \ {"html"} |-> body[k]]

\* extras of convert_endpoint: the listed keys the body holds
AppExtras(body) == [k \in AppExtraKeys \cap DOMAIN body |-> body[k]]

\* payload of call_image_api: DEFAULT_PAYLOAD.copy(), html set, extras merged
AppPayload(html, extras) ==
    [k \in DOMAIN DEFAULT_PAYLOAD \cup DOMAIN extras |->
        IF k \in DOMAIN extras THEN extras[k]
        ELSE IF k = "html" THEN html
        ELSE DEFAULT_PAYLOAD[k]]

\* forward_payload of render_html: every key present, "" when the body lacks it
EditedPayload(data) ==
    [k \in {"html"} \cup EditedExtraKeys |->
        IF k = "html" THEN data["html"] ELSE GetDefault(data, k, "")]

----------------------------------------------------------------------------
(* The status body: cookies and token *)

\* f"{c['name']}={c['value']}"
CookiePair(c) == c["name"] \o "=" \o c["value"]

HasNameValue(c) == "name" \in DOMAIN c /\ "value" \in DOMAIN c

\* data.get("cookies", [])
CookiesOf(data) == IF data.has_cookies THEN data.cookies ELSE <<>>

\* fetch_status: c['name'] or c['value'] of an entry without it raises KeyError
AppCookieKeyError(data) ==
    \E i \in 1..Len(CookiesOf(data)) : ~HasNameValue(CookiesOf(data)[i])

\* cookie_str of fetch_status
AppCookieStr(data) ==
    LET cookies == CookiesOf(data)
    IN  IF cookies # <<>>
        THEN Join([i \in 1..Len(cookies) |-> CookiePair(cookies[i])], "; ")
        ELSE ""

\* cookie_str of render_html: entries without name or value are skipped
EditedCookieStr(data) ==
    LET kept == SelectSeq(CookiesOf(data), HasNameValue)
    IN  Join([i \in 1..Len(kept) |-> CookiePair(kept[i])], "; ")

\* a slip: the first two keys are read in the other order
AppToken_Swapped(data) ==
    Or(Or(Get(data.fields, "__RequestVerificationToken"),
          Get(data.fields, "requestVerificationToken")),
       Get(data.fields, "RequestVerificationToken"))

\* token of fetch_status
AppToken(data) ==
    Or(Or(Get(data.fields, "requestVerificationToken"),
          Get(data.fields, "__RequestVerificationToken")),
       Get(data.fields, "RequestVerificationToken"))

\* token of render_html
EditedToken(data) ==
    Or(Or(Or(Or(Get(data.fields, "requestVerificationToken"),
                Get(data.fields, "requestverificationtoken")),
             Get(data.fields, "RequestVerificationToken")),
          Get(data.fields, "__RequestVerificationToken")),
       Get(data.fields, "token"))

\* a slip: raise_for_status() is not called
RaiseForStatus_Never(code) == FALSE

\* resp.raise_for_status() raises for 4xx and 5xx
RaiseForStatus(code) == 400 <= code /\ code < 600

\* a slip: and for or, one credential is enough to go on
EditedCredsMissing_Both(tok, cookie) == ~Truthy(tok) /\ ~Truthy(cookie)

\* if not token or not cookie_str, of render_html
EditedCredsMissing(tok, cookie) == ~Truthy(tok) \/ ~Truthy(cookie)

----------------------------------------------------------------------------
(* The render POST's headers *)

HOMEPAGE == "https://htmlcsstoimage.com/"

\* the fixed entries of generate_fingerprint_headers
AppFixedHeaders ==
    ("Origin" :> HOMEPAGE) @@ ("Referer" :> HOMEPAGE) @@ ("DNT" :> "1")
    @@ ("Upgrade-Insecure-Requests" :> "1")

\* a slip: the Cookie header is set without the test of cookie_str
AppHeaders_CookieAlways(cookie, tok) ==
    ("Cookie" :> cookie)
    @@ (IF Truthy(tok) THEN ("requestverificationtoken" :> tok) ELSE EmptyDict)
    @@ AppFixedHeaders
    @@ ("content-type" :> "application/json") @@ ("sec-fetch-dest" :> "empty")
    @@ ("sec-fetch-mode" :> "cors") @@ ("sec-fetch-site" :> "same-origin")

\* headers of call_image_api: Cookie and requestverificationtoken only when set
AppHeaders(cookie, tok) ==
    (IF Truthy(cookie) THEN ("Cookie" :> cookie) ELSE EmptyDict)
    @@ (IF Truthy(tok) THEN ("requestverificationtoken" :> tok) ELSE EmptyDict)
    @@ AppFixedHeaders
    @@ ("content-type" :> "application/json") @@ ("sec-fetch-dest" :> "empty")
    @@ ("sec-fetch-mode" :> "cors") @@ ("sec-fetch-site" :> "same-origin")

\* headers of render_html
EditedHeaders(cookie, tok) ==
    ("accept" :> "*/*") @@ ("accept-language" :> "en-US,en;q=0.9")
    @@ ("content-type" :> "application/json")
    @@ ("origin" :> "https://htmlcsstoimage.com")
    @@ ("referer" :> "https://htmlcsstoimage.com/")
    @@ ("cookie" :> cookie) @@ ("requestverificationtoken" :> tok)

----------------------------------------------------------------------------
(* The response relayed *)

\* content_type.startswith("image/"), on the content types that occur
StartsWithImage(content_type) == content_type \in {"image/png", "image/jpeg"}

\* the names render_html does not copy
EditedExcluded == {"content-encoding", "transfer-encoding"}

\* headers of the Response of render_html
EditedRelayHeaders(h) ==
    [k \in {n \in DOMAIN h : Lower(n) \notin EditedExcluded} |-> h[k]]

\* headers of send_file(..., mimetype=content_type, download_name="result.png")
AppFileHeaders(content_type) ==
    ("Content-Type" :> content_type)
    @@ ("Content-Disposition" :> "inline; filename=result.png")

----------------------------------------------------------------------------
(* The inputs: requests, status answers, render answers *)

XApiKeys == {None, API_KEY, "wrong"}

Authorizations ==
    {NoAuth,
     [scheme |-> "Bearer", sp |-> TRUE, cred |-> API_KEY],
     [scheme |-> "Bearer", sp |-> TRUE, cred |-> "wrong"],
     [scheme |-> "Bearer", sp |-> TRUE, cred |-> ""],
     [scheme |-> "Basic", sp |-> TRUE, cred |-> API_KEY]}

\* body keys a caller sends beside html: one both scripts forward, one only
\* app.py forwards, one only edited-app.py forwards, one neither forwards
CallerKeys == {"selector", "timezone", "css", "evil"}

CallerValue == "v"

HtmlValues == {"", "<h1>hi</h1>"}

BodyObjects ==
    {[k \in K |-> IF k = "html" THEN h ELSE CallerValue] :
        K \in SUBSET ({"html"} \cup CallerKeys), h \in HtmlValues}

\* a body is a JSON object, another JSON value (array), or not JSON at all
Bodies ==
    {[kind |-> "malformed", obj |-> EmptyDict], [kind |-> "array", obj |-> EmptyDict]}
    \cup {[kind |-> "object", obj |-> o] : o \in BodyObjects}

Requests ==
    [x_api_key : XApiKeys, authorization : Authorizations, is_json : BOOLEAN,
     body : Bodies]

NoRequest ==
    [x_api_key |-> None, authorization |-> NoAuth, is_json |-> FALSE,
     body |-> [kind |-> "malformed", obj |-> EmptyDict]]

CookiePool ==
    <<[name |-> "a", value |-> "b"], [name |-> "c", value |-> "d"],
      [name |-> "e", value |-> "f"], [name |-> "g", value |-> "h"]>>

\* well-formed cookie lists, and one whose entry has no value
CookieLists ==
    {SubSeq(CookiePool, 1, n) : n \in 0..MaxCookies} \cup {<<[name |-> "a"]>>}

TokenKeys ==
    {"requestVerificationToken", "__RequestVerificationToken",
     "RequestVerificationToken", "request_verification_token", "token",
     "requestverificationtoken", "csrfToken"}

\* each key carries a value of its own, so that a token names its key
TokenValue(k) ==
    CASE k = "requestVerificationToken" -> "T-rVT"
      [] k = "__RequestVerificationToken" -> "T-__RVT"
      [] k = "RequestVerificationToken" -> "T-RVT"
      [] k = "request_verification_token" -> "T-r_v_t"
      [] k = "token" -> "T-token"
      [] k = "requestverificationtoken" -> "T-rvt"
      [] OTHER -> "T-csrf"

\* the token-like fields of a status body: some keys, some of them empty
FieldSets ==
    UNION {{[k \in K |-> IF k \in E THEN "" ELSE TokenValue(k)] : E \in SUBSET K} :
              K \in {S \in SUBSET TokenKeys : Cardinality(S) <= MaxTokenKeys}}

StatusJsons ==
    {j \in [has_cookies : BOOLEAN, cookies : CookieLists, fields : FieldSets] :
        ~j.has_cookies => j.cookies = <<>>}

NoJson == [has_cookies |-> FALSE, cookies |-> <<>>, fields |-> EmptyDict]

TransportCauses == {"ConnectionError", "ReadTimeout"}

StatusCodes == {200, 503}

StatusResponses ==
    {[kind |-> "transport", cause |-> c, code |-> 0, json_ok |-> FALSE, json |-> NoJson] :
        c \in TransportCauses}
    \cup {[kind |-> "http", cause |-> "", code |-> c, json_ok |-> FALSE, json |-> NoJson] :
        c \in StatusCodes}
    \cup {[kind |-> "http", cause |-> "", code |-> c, json_ok |-> TRUE, json |-> j] :
        c \in StatusCodes, j \in StatusJsons}

RenderCodes == {200, 201, 404}

ContentTypes == {"image/png", "application/json"}

UpstreamHeaderNames == {"Connection", "Transfer-Encoding", "X-Request-Id"}

UpstreamHeaderValue(n) ==
    CASE n = "Connection" -> "keep-alive"
      [] n = "Transfer-Encoding" -> "chunked"
      [] OTHER -> "r-1"

UpstreamHeaders(content_type, names) ==
    ("Content-Type" :> content_type) @@ [n \in names |-> UpstreamHeaderValue(n)]

NoRender ==
    [kind |-> "none", cause |-> "", code |-> 0, content_type |-> "",
     headers |-> EmptyDict]

RenderResponses ==
    {[kind |-> "transport", cause |-> c, code |-> 0, content_type |-> "",
      headers |-> EmptyDict] : c \in TransportCauses}
    \cup {[kind |-> "http", cause |-> "", code |-> c, content_type |-> t,
           headers |-> UpstreamHeaders(t, N)] :
             c \in RenderCodes, t \in ContentTypes, N \in SUBSET UpstreamHeaderNames}

----------------------------------------------------------------------------
(* Responses of /convert *)

NoResponse ==
    [status |-> 0, error |-> "", cause |-> "", exception |-> "",
     headers |-> EmptyDict, body |-> ""]

\* a JSON error (jsonify(...), status) or an abort(status, description)
ErrorResponse(status, error, cause) ==
    [status |-> status, error |-> error, cause |-> cause, exception |-> "",
     headers |-> EmptyDict, body |-> "error"]

\* an exception no handler catches: Flask answers 500, the body does not name it
Unhandled(exception) ==
    [status |-> 500, error |-> "Internal Server Error", cause |-> "",
     exception |-> exception, headers |-> EmptyDict, body |-> "error"]

----------------------------------------------------------------------------
(* app.py *)

\* convert_endpoint up to the call of call_image_api: the response that ends
\* the request there, or NoResponse when the request goes on
AppValidate(req) ==
    LET key == require_api_key(req)
    IN  IF key = "IndexError" THEN Unhandled("IndexError")
        ELSE IF key = "401" THEN ErrorResponse(401, "Invalid or missing API key.", "")
        ELSE IF ~req.is_json
             THEN ErrorResponse(400, "Content-Type must be application/json", "")
        ELSE IF req.body.kind = "malformed" THEN ErrorResponse(400, "Bad Request", "")
        ELSE IF req.body.kind # "object" THEN Unhandled("AttributeError")
        ELSE IF HtmlMissing(Get(req.body.obj, "html"))
             THEN ErrorResponse(400, "Missing 'html' field in JSON body", "")
        ELSE NoResponse

\* fetch_status on the status service's answer: what it raises, or "ok"
AppFetchStatus(s) ==
    IF s.kind = "transport" THEN "transport"
    ELSE IF RaiseForStatus(s.code) THEN "http_error"
    ELSE IF ~s.json_ok THEN "bad_json"
    ELSE IF AppCookieKeyError(s.json) THEN "bad_cookie"
    ELSE "ok"

\* the except clauses of convert_endpoint: requests.HTTPError, then Exception
AppStatusError(outcome, s) ==
    IF outcome = "http_error"
    THEN ErrorResponse(502, "Remote service HTTP error", "HTTPError")
    ELSE ErrorResponse(500, "Failed to generate image",
                       IF outcome = "transport" THEN s.cause
                       ELSE IF outcome = "bad_json" THEN "JSONDecodeError"
                       ELSE "KeyError")

\* the end of call_image_api and of convert_endpoint on the render answer
AppRenderResponse(u) ==
    IF u.kind = "transport"
    THEN ErrorResponse(500, "Failed to generate image", u.cause)
    ELSE IF RaiseForStatus(u.code)
    THEN ErrorResponse(502, "Remote service HTTP error", "HTTPError")
    ELSE IF StartsWithImage(u.content_type)
    THEN [status |-> 200, error |-> "", cause |-> "", exception |-> "",
          headers |-> AppFileHeaders(u.content_type), body |-> "image"]
    ELSE ErrorResponse(500, "Failed to generate image", "RuntimeError")

\* what the wire saw of an answer
Failed(r) == r.kind = "transport" \/ r.code < 200 \/ r.code >= 300

StatusEvent(s) == IF Failed(s) THEN "status_failed" ELSE "status_returned"

RenderEvent(u) == IF Failed(u) THEN "render_failed" ELSE "render_returned"

\* POST /convert arrives: the key check, the body checks, then the status GET
AppConvert ==
    /\ variant = "app"
    /\ pc = "idle"
    /\ \E req \in Requests :
        /\ request' = req
        /\ IF AppValidate(req) # NoResponse
           THEN /\ response' = AppValidate(req)
                /\ pc' = "done"
                /\ calls' = calls
           ELSE /\ response' = response
                /\ pc' = "status"
                /\ calls' = Append(calls, "status_get")
    /\ UNCHANGED <<variant, status_json, status_result, cookie_str, token, posts,
                   render_resp>>

\* the status GET ends: fetch_status, then call_image_api up to its POST
AppStatusReturn ==
    /\ variant = "app"
    /\ pc = "status"
    /\ \E s \in StatusResponses :
        LET outcome == AppFetchStatus(s)
            cookie == AppCookieStr(s.json)
            tok == AppToken(s.json)
        IN  /\ status_result' = outcome
            /\ IF outcome = "ok"
               THEN /\ cookie_str' = cookie
                    /\ token' = tok
                    /\ posts' = Append(posts,
                          [headers |-> AppHeaders(cookie, tok),
                           payload |-> AppPayload(request.body.obj["html"],
                                                  AppExtras(request.body.obj))])
                    /\ calls' = calls \o <<StatusEvent(s), "render_post">>
                    /\ pc' = "render"
                    /\ response' = response
               ELSE /\ response' = AppStatusError(outcome, s)
                    /\ calls' = Append(calls, StatusEvent(s))
                    /\ pc' = "done"
                    /\ UNCHANGED <<cookie_str, token, posts>>
    /\ UNCHANGED <<variant, request, status_json, render_resp>>

\* the render POST ends
AppRenderReturn ==
    /\ variant = "app"
    /\ pc = "render"
    /\ \E u \in RenderResponses :
        /\ render_resp' = u
        /\ response' = AppRenderResponse(u)
        /\ calls' = Append(calls, RenderEvent(u))
    /\ pc' = "done"
    /\ UNCHANGED <<variant, request, status_json, status_result, cookie_str, token,
                   posts>>

----------------------------------------------------------------------------
(* edited-app.py *)

\* steps 1 and 2 of render_html: the response that ends the request there, or
\* NoResponse when the request goes on
EditedValidate(req) ==
    IF EditedKeyCheck(req) = "401"
    THEN ErrorResponse(401, "Invalid or missing X-API-KEY", "")
    ELSE IF req.body.kind = "malformed" THEN ErrorResponse(400, "Bad Request", "")
    ELSE IF req.body.kind # "object" THEN Unhandled("AttributeError")
    ELSE IF HtmlMissing(Get(req.body.obj, "html"))
         THEN ErrorResponse(400, "html field is required", "")
    ELSE NoResponse

\* step 3 of render_html: what the try block raises, or "ok"
EditedFetchStatus(s) ==
    IF s.kind = "transport" THEN "transport"
    ELSE IF RaiseForStatus(s.code) THEN "http_error"
    ELSE IF ~s.json_ok THEN "bad_json"
    ELSE "ok"

\* abort(502, f"Failed to fetch status endpoint: {e}")
EditedStatusError(outcome, s) ==
    ErrorResponse(502, "Failed to fetch status endpoint",
                  IF outcome = "transport" THEN s.cause
                  ELSE IF outcome = "http_error" THEN "HTTPError"
                  ELSE "JSONDecodeError")

\* the end of render_html on the render answer
EditedRenderResponse(u) ==
    IF u.kind = "transport"
    THEN ErrorResponse(502, "Failed to call upstream HTML->image service", u.cause)
    ELSE [status |-> u.code, error |-> "", cause |-> "", exception |-> "",
          headers |-> EditedRelayHeaders(u.headers), body |-> "upstream"]

\* POST /convert arrives: the key check, the body check, then the status GET
EditedConvert ==
    /\ variant = "edited"
    /\ pc = "idle"
    /\ \E req \in Requests :
        /\ request' = req
        /\ IF EditedValidate(req) # NoResponse
           THEN /\ response' = EditedValidate(req)
                /\ pc' = "done"
                /\ calls' = calls
           ELSE /\ response' = response
                /\ pc' = "status"
                /\ calls' = Append(calls, "status_get")
    /\ UNCHANGED <<variant, status_json, status_result, cookie_str, token, posts,
                   render_resp>>

\* the status GET ends: steps 3 to 7 of render_html, up to its POST
EditedStatusReturn ==
    /\ variant = "edited"
    /\ pc = "status"
    /\ \E s \in StatusResponses :
        LET outcome == EditedFetchStatus(s)
            cookie == EditedCookieStr(s.json)
            tok == EditedToken(s.json)
        IN  /\ status_result' = outcome
            /\ IF outcome # "ok"
               THEN /\ response' = EditedStatusError(outcome, s)
                    /\ calls' = Append(calls, StatusEvent(s))
                    /\ pc' = "done"
                    /\ UNCHANGED <<cookie_str, token, posts>>
               ELSE /\ cookie_str' = cookie
                    /\ token' = tok
                    /\ IF EditedCredsMissing(tok, cookie)
                       THEN /\ response' = ErrorResponse(502,
                                  "Missing cookie string or token from /status response", "")
                            /\ calls' = Append(calls, StatusEvent(s))
                            /\ pc' = "done"
                            /\ posts' = posts
                       ELSE /\ posts' = Append(posts,
                                  [headers |-> EditedHeaders(cookie, tok),
                                   payload |-> EditedPayload(request.body.obj)])
                            /\ calls' = calls \o <<StatusEvent(s), "render_post">>
                            /\ pc' = "render"
                            /\ response' = response
    /\ UNCHANGED <<variant, request, status_json, render_resp>>

\* the render POST ends: the upstream answer is relayed
EditedRenderReturn ==
    /\ variant = "edited"
    /\ pc = "render"
    /\ \E u \in RenderResponses :
        /\ render_resp' = u
        /\ response' = EditedRenderResponse(u)
        /\ calls' = Append(calls, RenderEvent(u))
    /\ pc' = "done"
    /\ UNCHANGED <<variant, request, status_json, status_result, cookie_str, token,
                   posts>>

----------------------------------------------------------------------------
(* The request, from arrival to response *)

Init ==
    /\ variant \in {"app", "edited"}
    /\ pc = "idle"
    /\ request = NoRequest
    /\ status_json = NoJson
    /\ status_result = "none"
    /\ cookie_str = ""
    /\ token = None
    /\ posts = <<>>
    /\ render_resp = NoRender
    /\ response = NoResponse
    /\ calls = <<>>

Next ==
    \/ AppConvert
    \/ AppStatusReturn
    \/ AppRenderReturn
    \/ EditedConvert
    \/ EditedStatusReturn
    \/ EditedRenderReturn

Spec == Init /\ [][Next]_vars

----------------------------------------------------------------------------
(* The token extraction alone, on every status body of the bounds *)

InitToken ==
    /\ variant \in {"app", "edited"}
    /\ pc = "extract"
    /\ request = NoRequest
    /\ status_json \in StatusJsons
    /\ status_result = "ok"
    /\ cookie_str = ""
    /\ token = None
    /\ posts = <<>>
    /\ render_resp = NoRender
    /\ response = NoResponse
    /\ calls = <<>>

\* lines 119-121 of fetch_status
AppExtractToken ==
    /\ variant = "app"
    /\ pc = "extract"
    /\ token' = AppToken(status_json)
    /\ pc' = "extracted"
    /\ UNCHANGED <<variant, request, status_json, status_result, cookie_str, posts,
                   render_resp, response, calls>>

\* step 5 of render_html
EditedExtractToken ==
    /\ variant = "edited"
    /\ pc = "extract"
    /\ token' = EditedToken(status_json)
    /\ pc' = "extracted"
    /\ UNCHANGED <<variant, request, status_json, status_result, cookie_str, posts,
                   render_resp, response, calls>>

NextToken == AppExtractToken \/ EditedExtractToken

SpecToken == InitToken /\ [][NextToken]_vars

----------------------------------------------------------------------------
(* Vocabulary of the properties *)

\* the secret the caller presents: the Bearer token where the script reads it
\* (app.py), else the X-API-KEY header
PresentedSecret ==
    IF variant = "app" /\ request.authorization.scheme \in {"Bearer", "bearer"}
    THEN request.authorization.cred
    ELSE request.x_api_key

SecretRejected == PresentedSecret \in {None, ""} \/ PresentedSecret # "OTTONRENT"

Logged(event) == \E i \in 1..Len(calls) : calls[i] = event

Count(event) == Cardinality({i \in 1..Len(calls) : calls[i] = event})

NoOutboundCall == ~Logged("status_get") /\ ~Logged("render_post") /\ posts = <<>>

BodyIsObject == request.body.kind = "object"

HtmlAbsentOrEmpty ==
    "html" \notin DOMAIN request.body.obj \/ request.body.obj["html"] = ""

----------------------------------------------------------------------------
(* C1 *)

\* C1: a request whose presented secret is missing or differs from the API key
\* is answered 401, and no status GET and no render POST is issued for it,
\* whatever its body.
C1_RejectedKeyIs401 ==
    (pc = "done" /\ SecretRejected) => (response.status = 401 /\ NoOutboundCall)

----------------------------------------------------------------------------
(* C2 *)

----------------------------------------------------------------------------
(* C3 *)

----------------------------------------------------------------------------
(* C10 *)

\* C10: for a request, at most one status GET and at most one render POST are
\* issued, the render POST only after the status GET has returned, and after
\* a failed outbound attempt no further outbound call is issued.
C10_SingleAttempt ==
    /\ Count("status_get") <= 1
    /\ Count("render_post") <= 1
    /\ Len(posts) = Count("render_post")
    /\ \A i \in 1..Len(calls) :
          calls[i] = "render_post" =>
              \E j \in 1..(i - 1) : calls[j] = "status_returned"
    /\ \A i \in 1..Len(calls) :
          calls[i] \in {"status_failed", "render_failed"} =>
              \A j \in (i + 1)..Len(calls) : calls[j] \notin {"status_get", "render_post"}

C10_Witness ==
    /\ pc = "done"
    /\ calls = <<"status_get", "status_returned", "render_post", "render_failed">>
    /\ Len(posts) = 1

----------------------------------------------------------------------------
(* C4 *)

\* C4, as stated: in app.py a failed status GET (transport error or a non-2xx
\* answer) does not stop the request; the render POST is still issued, without
\* Cookie and requestverificationtoken headers.
C4_FailedStatusStillPosts ==
    (variant = "app" /\ pc = "done" /\ Logged("status_failed"))
    => /\ Len(posts) = 1
       /\ "Cookie" \notin DOMAIN posts[1].headers
       /\ "requestverificationtoken" \notin DOMAIN posts[1].headers

\* C4, amended: in app.py, once fetch_status has returned, the render POST is
\* issued whatever credentials it found, with the Cookie header absent exactly
\* when the cookie string is empty and the requestverificationtoken header
\* absent exactly when no token was found; a failed status GET ends the
\* request with 500 or 502 and no render POST.
C4_MissingCredentialsStillPost ==
    variant = "app" =>
        /\ status_result = "ok" =>
              /\ Len(posts) = 1
              /\ Logged("render_post")
              /\ ("Cookie" \in DOMAIN posts[1].headers) <=> (cookie_str # "")
              /\ ("requestverificationtoken" \in DOMAIN posts[1].headers)
                    <=> (token \notin {None, ""})
              /\ "Cookie" \in DOMAIN posts[1].headers
                    => posts[1].headers["Cookie"] = cookie_str
              /\ "requestverificationtoken" \in DOMAIN posts[1].headers
                    => posts[1].headers["requestverificationtoken"] = token
        /\ Logged("status_failed") =>
              /\ pc = "done"
              /\ posts = <<>>
              /\ ~Logged("render_post")
              /\ response.status \in {500, 502}

C4_Witness ==
    /\ variant = "app"
    /\ status_result = "ok"
    /\ cookie_str = ""
    /\ token = None
    /\ Len(posts) = 1
    /\ "Cookie" \notin DOMAIN posts[1].headers
    /\ "requestverificationtoken" \notin DOMAIN posts[1].headers

----------------------------------------------------------------------------
(* C5 *)

\* the allow-list of the specification's RenderRequest
AllowList ==
    {"selector", "full_screen", "render_when_ready", "color_scheme", "timezone",
     "block_consent_banners", "viewport_width", "viewport_height", "device_scale",
     "css", "url", "console_mode", "ms_delay", "google_fonts"}

ForwardList ==
    IF variant = "app"
    THEN {"selector", "full_screen", "render_when_ready", "color_scheme", "timezone",
          "block_consent_banners"}
    ELSE {"css", "url", "selector", "console_mode", "ms_delay", "render_when_ready",
          "viewport_width", "viewport_height", "google_fonts", "device_scale"}

ForwardDefault(k) ==
    IF variant = "edited" THEN ""
    ELSE CASE k = "selector" -> "#qr-container"
           [] k = "color_scheme" -> "light"
           [] k = "timezone" -> "UTC"
           [] OTHER -> "False"

----------------------------------------------------------------------------
(* C6 *)

HopByHop ==
    {"connection", "keep-alive", "proxy-authenticate", "proxy-authorization", "te",
     "trailers", "transfer-encoding", "upgrade", "content-encoding"}

\* C6: when an upstream response is relayed, the headers returned to the caller
\* hold no hop-by-hop name (compared case-insensitively), and every other
\* upstream header is copied.
C6_HopByHopStripped ==
    (pc = "done" /\ render_resp.kind = "http" /\ response.body # "error")
    => /\ \A k \in DOMAIN response.headers : Lower(k) \notin HopByHop
       /\ \A k \in DOMAIN render_resp.headers :
             Lower(k) \notin HopByHop =>
                /\ k \in DOMAIN response.headers
                /\ response.headers[k] = render_resp.headers[k]

----------------------------------------------------------------------------
(* C7 *)

\* C7: whenever the render POST ends with an HTTP response, the status code of
\* the /convert response is the upstream status code.
C7_UpstreamStatusRelayed ==
    (pc = "done" /\ render_resp.kind = "http") => response.status = render_resp.code

----------------------------------------------------------------------------
(* C8 *)

\* C8: when a transport failure of the status GET or of the render POST ends
\* the request, the response is 502 and its body names the cause.
C8_TransportFailureIs502 ==
    (pc = "done" /\ (status_result = "transport" \/ render_resp.kind = "transport"))
    => (response.status = 502 /\ response.cause \in TransportCauses)

----------------------------------------------------------------------------
(* C9 *)

\* the least element of a non-empty set of numbers
Least(S) == CHOOSE i \in S : \A j \in S : i <= j

\* the value of the first key of order that fields holds non-empty, or None
FirstNonEmpty(fields, order) ==
    LET hits == {i \in 1..Len(order) :
                    order[i] \in DOMAIN fields /\ fields[order[i]] \notin {None, ""}}
    IN  IF hits = {} THEN None ELSE fields[order[Least(hits)]]

NamedOrder ==
    <<"requestVerificationToken", "__RequestVerificationToken",
      "RequestVerificationToken", "request_verification_token", "token">>

\* C9, as stated: the token is the value of the first of the five named keys
\* that is present and non-empty, and failing those the value of a key whose
\* name contains token or verification (every key of TokenKeys does).
C9_NamedOrderThenAnyTokenKey ==
    pc = "extracted" =>
        LET fields == status_json.fields
            others == {k \in DOMAIN fields : fields[k] # ""}
        IN  IF FirstNonEmpty(fields, NamedOrder) # None
            THEN token = FirstNonEmpty(fields, NamedOrder)
            ELSE IF others # {} THEN token \in {fields[k] : k \in others}
            ELSE token \in {None, ""}

\* the keys each script reads, in its order
ScriptOrder ==
    IF variant = "app"
    THEN <<"requestVerificationToken", "__RequestVerificationToken",
           "RequestVerificationToken">>
    ELSE <<"requestVerificationToken", "requestverificationtoken",
           "RequestVerificationToken", "__RequestVerificationToken", "token">>

\* C9, amended: the token is the value of the first key, in the script's own
\* order, that is present and non-empty; no other key is read, and when none
\* of them is present and non-empty no token is found.
C9_ScriptOrder ==
    pc = "extracted" =>
        IF FirstNonEmpty(status_json.fields, ScriptOrder) # None
        THEN token = FirstNonEmpty(status_json.fields, ScriptOrder)
        ELSE token \in {None, ""}

C9_Witness ==
    /\ pc = "extracted"
    /\ variant = "edited"
    /\ DOMAIN status_json.fields = {"RequestVerificationToken", "__RequestVerificationToken"}
    /\ status_json.fields["RequestVerificationToken"] = "T-RVT"
    /\ status_json.fields["__RequestVerificationToken"] = "T-__RVT"
    /\ token = "T-RVT"

============================================================================
